---------------------------- MODULE Spec2Model ----------------------------
(***************************************************************************)
(* Retrieval-and-fallback orchestration of the university assistant        *)
(* (chatbot-deploy-eduvantage-main/agentic_RAG.py).                        *)
(*                                                                         *)
(* Text is a sequence of atoms.  Variable text (queries, titles,           *)
(* summaries, contents, university names) is a sequence of one-character   *)
(* strings; a string literal of the source is one atom holding the         *)
(* literal.  Python's None is the empty tuple wrapped as an option:        *)
(* None == << >>, Some(x) == <<x>>.                                         *)
(***************************************************************************)
EXTENDS Integers, Sequences, FiniteSets, TLC

(***************************************************************************)
(* Bounds of the model.                                                    *)
(***************************************************************************)
MaxPieces == 3

(***************************************************************************)
(* Options.                                                                *)
(***************************************************************************)
None == << >>

Some(x) == <<x>>

IsNone(o) == Len(o) = 0

Val(o) == o[1]

(***************************************************************************)
(* Characters: str.lower() and the regex class \w on the alphabet used.    *)
(***************************************************************************)
LowerLetters ==
    {"a","b","c","d","e","f","g","h","i","k","l","m","n","o","r","s","t","u","v","x","y"}

UpperLetters == {"A","F","I","M","N","S","T","U"}

Digits == {"0","1"}

WordChars == LowerLetters \cup UpperLetters \cup Digits \cup {"_"}

LowerChar(c) ==
    CASE c = "A" -> "a"
      [] c = "F" -> "f"
      [] c = "I" -> "i"
      [] c = "M" -> "m"
      [] c = "N" -> "n"
      [] c = "S" -> "s"
      [] c = "T" -> "t"
      [] c = "U" -> "u"
      [] OTHER   -> c

\* str.lower()
Lower(s) == [i \in 1..Len(s) |-> LowerChar(s[i])]

(***************************************************************************)
(* University resolution: lines 76-80 of retrieve_university_info.         *)
(***************************************************************************)
university_keywords ==
    << <<"n","u","s","t">>,
       <<"f","a","s","t">>,
       <<"l","u","m","s">>,
       <<"c","o","m","s","a","t","s">>,
       <<"a","i","r">>,
       <<"i","b","a">>,
       <<"g","i","k","i">>,
       <<"s","t","a","n","f","o","r","d">>,
       <<"o","x","f","o","r","d">>,
       <<"m","i","t">>,
       <<"c","a","l","t","e","c","h">>,
       <<"h","a","r","v","a","r","d">>,
       <<"c","a","m","b","r","i","d","g","e">>,
       <<"b","e","r","k","e","l","e","y">>,
       <<"p","r","i","n","c","e","t","o","n">> >>

\* Whether position p of s (1..Len(s)) holds a \w character; positions outside
\* the string count as non-word, as for the regex engine.
IsWordAt(s, p) == p >= 1 /\ p <= Len(s) /\ s[p] \in WordChars

\* The regex assertion \b between positions p and p+1 of s.
WordBoundary(s, p) == IsWordAt(s, p) # IsWordAt(s, p + 1)

\* The same search with the closing \b left out.
ReSearchNoTrailingBoundary(uni, s) ==
    \E i \in 1..(Len(s) - Len(uni) + 1) :
        /\ SubSeq(s, i, i + Len(uni) - 1) = uni
        /\ WordBoundary(s, i - 1)

\* re.search(rf"\b{re.escape(uni)}\b", s): some occurrence of uni in s with a
\* word boundary on each side.
ReSearchWord(uni, s) ==
    \E i \in 1..(Len(s) - Len(uni) + 1) :
        /\ SubSeq(s, i, i + Len(uni) - 1) = uni
        /\ WordBoundary(s, i - 1)
        /\ WordBoundary(s, i + Len(uni) - 1)

\* next((uni for uni in university_keywords if re.search(...)), None)
MatchUniversity(query) ==
    LET hits == {k \in 1..Len(university_keywords) :
                     ReSearchWord(university_keywords[k], Lower(query))}
    IN  IF hits = {} THEN None
        ELSE Some(university_keywords[CHOOSE k \in hits : \A j \in hits : k <= j])

(***************************************************************************)
(* The fixed strings of the source.                                        *)
(***************************************************************************)
GuidanceMsg ==
    <<"Please mention a specific university in your query (e.g., NUST, FAST, LUMS).">>

StoreErrorMsg == <<"There was an error fetching data. Please try again.">>

WebErrorMsg ==
    <<"There was an error retrieving the latest web result. Please try again later.">>

NoAnswerMsg == <<"No answer found.">>

NotAvailable == <<"N/A">>

Separator == <<"\n\n---\n\n">>

(***************************************************************************)
(* get_embedding.  The provider either answers with a vector or fails      *)
(* (network error, malformed response).                                    *)
(* A vector is kept as its length and whether all its elements are 0.0.    *)
(***************************************************************************)
EmbeddingDim == 1536

\* [0.0] * 1536
ZeroVector == [len |-> EmbeddingDim, zero |-> TRUE]

\* What the provider returns for a text when it answers: text-embedding-3-small
\* vectors have 1536 elements.
ProviderVector == [len |-> EmbeddingDim, zero |-> FALSE]

EmbeddingOutcomes == {"ok", "network_error", "malformed_response"}

\* The except branch returning one element too few.
GetEmbeddingShort(outcome) ==
    IF outcome = "ok" THEN ProviderVector ELSE [len |-> EmbeddingDim - 1, zero |-> TRUE]

\* get_embedding: response.data[0].embedding, or [0.0] * 1536 on any exception.
GetEmbedding(outcome) ==
    IF outcome = "ok" THEN ProviderVector ELSE ZeroVector

(***************************************************************************)
(* Rows of site_pages as the store returns them.  metadata is the JSON     *)
(* value of the column: the key may be missing from the returned record,   *)
(* the value may be null, or a mapping whose university_name is missing,   *)
(* null or a string.                                                       *)
(***************************************************************************)
MetaAbsent == [k |-> "absent"]

MetaNull == [k |-> "null"]

MetaEmpty == [k |-> "map", name |-> [k |-> "absent"]]

MetaNullName == [k |-> "map", name |-> [k |-> "null"]]

MetaNamed(s) == [k |-> "map", name |-> [k |-> "str", s |-> s]]

\* doc["metadata"].get("university_name", "").lower() raises AttributeError
\* when metadata is null or the name is null.
FilterRaises(doc) ==
    \/ doc.metadata.k = "null"
    \/ doc.metadata.k = "map" /\ doc.metadata.name.k = "null"

\* The condition of the list comprehension, lines 101-104, on a doc for which
\* it does not raise.
FilterKeeps(doc, matched_uni) ==
    /\ doc.metadata.k = "map"
    /\ Lower(IF doc.metadata.name.k = "str" THEN doc.metadata.name.s ELSE << >>)
          = Lower(matched_uni)

SummaryFallbackLen == 300

\* s[:n]
Slice(s, n) == SubSeq(s, 1, IF Len(s) < n THEN Len(s) ELSE n)

\* doc['summary'] or doc['content'][:300]: a summary of None or "" is falsy.
SummaryOrContent(doc) ==
    IF ~IsNone(doc.summary) /\ Val(doc.summary) # << >>
    THEN Val(doc.summary)
    ELSE Slice(doc.content, SummaryFallbackLen)

\* The section with the trailing "..." only after truncated content.
FormatDocEllipsisOnContentOnly(doc) ==
    <<"# ">> \o doc.title \o <<"\n\n">> \o
    (IF ~IsNone(doc.summary) /\ Val(doc.summary) # << >>
     THEN Val(doc.summary)
     ELSE Slice(doc.content, SummaryFallbackLen) \o <<"...">>)

\* f"# {doc['title']}\n\n{doc['summary'] or doc['content'][:300]}..."
FormatDoc(doc) ==
    <<"# ">> \o doc.title \o <<"\n\n">> \o SummaryOrContent(doc) \o <<"...">>

\* "\n\n---\n\n".join(content)
RECURSIVE JoinSections(_)
JoinSections(content) ==
    IF content = << >> THEN << >>
    ELSE IF Len(content) = 1 THEN content[1]
    ELSE content[1] \o Separator \o JoinSections(Tail(content))

\* The loop of lines 112-114.
FormatAll(filtered) == [i \in 1..Len(filtered) |-> FormatDoc(filtered[i])]

(***************************************************************************)
(* Bounded inputs: ingested rows, queries, provider responses.             *)
(***************************************************************************)
MaxCalls == 2

Tasks == {"t1", "t2"}

Url1 == <<"h","/","1">>

Url2 == <<"h","/","2">>

Answer1 == <<"a","n","s">>

LongContent == [i \in 1..(SummaryFallbackLen + 1) |->
                   IF i = 1 THEN "b" ELSE IF i <= SummaryFallbackLen THEN "c" ELSE "d"]

Row(url, title, summary, content, metadata) ==
    [url |-> url, title |-> title, summary |-> summary, content |-> content,
     metadata |-> metadata, embedding |-> ProviderVector, chunk_number |-> 0]

RowNustSummary ==
    Row(Url2, <<"A">>, Some(<<"s","u","m">>), <<"x","y">>, MetaNamed(<<"n","u","s","t">>))

RowNustLong ==
    Row(Url2, <<"B">>, None, LongContent, MetaNamed(<<"N","U","S","T">>))

RowNustEmptySummary ==
    Row(Url1, <<"C">>, Some(<< >>), <<"x","y">>, MetaNamed(<<"N","u","s","t">>))

RowMit == Row(Url2, <<"M">>, Some(<<"s">>), <<"x">>, MetaNamed(<<"m","i","t">>))

RowNoMetadataKey == Row(Url2, <<"K">>, Some(<<"s">>), <<"x">>, MetaAbsent)

RowEmptyMetadata == Row(Url2, <<"E">>, Some(<<"s">>), <<"x">>, MetaEmpty)

RowNullMetadata == Row(Url2, <<"U">>, Some(<<"s">>), <<"x">>, MetaNull)

RowNullName == Row(Url2, <<"L">>, Some(<<"s">>), <<"x">>, MetaNullName)

\* The tables the out-of-scope ingestion may have left.
IngestedStores ==
    { << >>,
      <<RowNustSummary, RowNustLong>>,
      <<RowMit, RowNustEmptySummary>>,
      <<RowNoMetadataKey, RowEmptyMetadata>>,
      <<RowNullMetadata>>,
      <<RowNullName, RowNustSummary>> }

Queries ==
    { <<"N","U","S","T","?">>, <<"s","u","n","n","y">> }

\* Responses of the web search provider to requests.post: a transport error,
\* a non-2xx status, a body that is not JSON, or a JSON body.  answer is
\* None for a JSON null.
WebBody(has_answer, answer, has_results, results) ==
    [status |-> "ok", has_answer |-> has_answer, answer |-> answer,
     has_results |-> has_results, results |-> results]

WebResult1 == [url |-> Url1, title |-> <<"W">>, content |-> <<"w","c">>]

TavilyResponses ==
    { [status |-> "network_error"], [status |-> "http_error"], [status |-> "invalid_json"],
      WebBody(TRUE, Some(Answer1), TRUE, <<WebResult1>>),
      WebBody(FALSE, None, TRUE, << >>),
      WebBody(TRUE, Some(Answer1), FALSE, << >>),
      WebBody(TRUE, None, TRUE, <<WebResult1>>) }

StoreCallOutcomes == {"ok", "raise"}

(***************************************************************************)
(* State.                                                                  *)
(*   store   the rows of site_pages, in insertion order                    *)
(*   column_default  what the table stores for a column an insert omits    *)
(*   cached  the rows inserted by tavily_web_search (line 197), in order   *)
(*   task    per task: the tool call in progress, its locals and a record  *)
(*           of the external calls it has made                             *)
(*   calls   tool invocations started so far                               *)
(***************************************************************************)
VARIABLES store, column_default, cached, task, calls, rq, rpieces, rresolved, rdone

vars == <<store, column_default, cached, task, calls, rq, rpieces, rresolved, rdone>>

rvars == <<rq, rpieces, rresolved, rdone>>

mvars == <<store, column_default, cached, task, calls>>

IdleTask ==
    [pc |-> "idle", tool |-> "none", query |-> << >>, matched_uni |-> None,
     embedding |-> None, embed_failed |-> FALSE, fb_embedding |-> None,
     rpc_args |-> None, rpc_raised |-> FALSE, rpc_data |-> None,
     web_posts |-> 0, web_failed |-> FALSE, fb_calls |-> 0, fb_ret |-> None,
     answer |-> << >>, url |-> << >>, title |-> << >>, content |-> << >>,
     answer_embed_failed |-> FALSE, selects |-> 0, inserts |-> 0,
     cache_raised |-> FALSE, raced |-> FALSE,
     ret |-> None, line |-> 0, raised |-> FALSE]

\* return <value> at <line> of the tool that was invoked.
Return(tk, value, line) ==
    [tk EXCEPT !.pc = "done", !.ret = Some(value), !.line = line]

\* The exception leaves the invoked tool.
Propagate(tk, line) ==
    [tk EXCEPT !.pc = "done", !.ret = None, !.line = line, !.raised = TRUE]

\* The handler of retrieve_university_info letting the exception through.
RetrieveExceptReraise(tk) == Propagate(tk, 119)

\* except Exception, lines 118-120.
RetrieveExcept(tk) == Return(tk, StoreErrorMsg, 120)

\* tavily_web_search returns value: to the agent when it was invoked as a
\* tool, through line 98 or 108 when retrieve_university_info called it.
TavilyReturn(tk, value, line) ==
    LET r == [tk EXCEPT !.fb_ret = Some(value)]
    IN  Return(r, value, IF tk.tool = "retrieve" THEN tk.line ELSE line)

\* An exception that leaves tavily_web_search reaches the agent, or the
\* handler of retrieve_university_info when that called it.
TavilyRaise(tk) ==
    IF tk.tool = "retrieve" THEN RetrieveExcept(tk) ELSE Propagate(tk, 202)

\* except Exception, lines 201-203.
TavilyExcept(tk) == TavilyReturn(tk, WebErrorMsg, 203)

\* The cache calls placed after the try statement.
CacheFailureOutsideTry(tk) == TavilyRaise([tk EXCEPT !.cache_raised = TRUE])

\* A raise of the select of line 195 or the insert of line 197: both are
\* inside the try statement of lines 170-203.
CacheFailure(tk) == TavilyExcept([tk EXCEPT !.cache_raised = TRUE])

(***************************************************************************)
(* The vector store.                                                       *)
(***************************************************************************)
MatchCount == 5

\* match_site_pages: up to match_count rows of the table, in the order of a
\* similarity the model leaves open; the filter is advisory, so any rows may
\* come back.  A response is the sequence of the positions of its rows in the
\* table (rows are never changed or deleted).
RpcResults(table) ==
    LET n == IF Len(table) < MatchCount THEN Len(table) ELSE MatchCount
        picks == UNION {[1..k -> 1..Len(table)] : k \in 0..n}
    IN  {g \in picks : \A i, j \in 1..Len(g) : i # j => g[i] # g[j]}

\* The select filtering on the wrong column.
ExistingByTitle(table, url) == {i \in 1..Len(table) : table[i].title = url}

\* The select that finds nothing.
ExistingNone(table, url) == {}

\* from_("site_pages").select("id").eq("url", url): the rows holding url.
Existing(table, url) == {i \in 1..Len(table) : table[i].url = url}

\* insert_data names no metadata: the column takes the default of the
\* table's schema, NULL or an empty mapping.
ColumnDefaults == {MetaNull, MetaEmpty}

\* The record the table keeps for an insert.
StoredRow(insert_data, default) ==
    IF "metadata" \in DOMAIN insert_data THEN insert_data
    ELSE insert_data @@ [metadata |-> default]

\* The rows of a response.
Docs(table, response) == [i \in 1..Len(response) |-> table[response[i]]]

(***************************************************************************)
(* tavily_web_search up to its await, lines 149-183.                       *)
(***************************************************************************)
TavilyRequest(tk, resp) ==
    LET t1 == [tk EXCEPT !.fb_calls = @ + 1, !.web_posts = @ + 1]
        failed == [t1 EXCEPT !.web_failed = TRUE]
        answer == IF resp.has_answer THEN resp.answer ELSE Some(NoAnswerMsg)
        has_first == resp.results # << >>
    IN  IF resp.status # "ok" THEN TavilyExcept(failed)
        ELSE IF ~resp.has_results THEN TavilyExcept(failed)
        ELSE IF IsNone(answer) THEN TavilyExcept(failed)
        ELSE [t1 EXCEPT
                !.pc = "answer_embedding",
                !.answer = Val(answer),
                !.url = IF has_first THEN resp.results[1].url ELSE NotAvailable,
                !.title = IF has_first THEN resp.results[1].title ELSE NotAvailable,
                !.content = IF has_first THEN resp.results[1].content ELSE Val(answer)]

(***************************************************************************)
(* retrieve_university_info from the return of its await (line 72) to its  *)
(* return or to the await inside tavily_web_search.                        *)
(***************************************************************************)
\* if not matched_uni
Unresolved(matched_uni) == IsNone(matched_uni)

\* Lines 96-116 on the data of a store response; pc "fallback" stands for
\* the call of tavily_web_search at line 98 or 108.
RetrieveOnData(tk, data) ==
    LET uni == Val(tk.matched_uni)
        filtered == SelectSeq(data, LAMBDA doc : FilterKeeps(doc, uni))
    IN  IF data = << >> THEN [tk EXCEPT !.pc = "fallback", !.line = 98]
        ELSE IF \E i \in 1..Len(data) : FilterRaises(data[i]) THEN RetrieveExcept(tk)
        ELSE IF filtered = << >> THEN [tk EXCEPT !.pc = "fallback", !.line = 108]
        ELSE Return(tk, JoinSections(FormatAll(filtered)), 116)

\* Falling back to the web search when no university resolves.
RetrieveAfterEmbeddingUnresolvedFallsBack(tk, eo, rpc_raises, response) ==
    LET embedding == GetEmbedding(eo)
        t1 == [tk EXCEPT !.embedding = Some(embedding),
                         !.embed_failed = (eo # "ok"),
                         !.matched_uni = MatchUniversity(tk.query)]
    IN  IF Unresolved(t1.matched_uni) THEN [t1 EXCEPT !.pc = "fallback", !.line = 82]
        ELSE IF rpc_raises
        THEN RetrieveExcept([t1 EXCEPT !.rpc_raised = TRUE,
                               !.rpc_args = Some([query_embedding |-> embedding,
                                                  match_count |-> MatchCount,
                                                  filter |-> Lower(Val(t1.matched_uni))])])
        ELSE RetrieveOnData([t1 EXCEPT !.rpc_data = Some(response),
                               !.rpc_args = Some([query_embedding |-> embedding,
                                                  match_count |-> MatchCount,
                                                  filter |-> Lower(Val(t1.matched_uni))])],
                            Docs(store, response))

\* Lines 72-116 after the embedding provider has answered with outcome eo;
\* response is what the store returns unless rpc_raises.
RetrieveAfterEmbedding(tk, eo, rpc_raises, response) ==
    LET embedding == GetEmbedding(eo)
        matched_uni == MatchUniversity(tk.query)
        t1 == [tk EXCEPT !.embedding = Some(embedding),
                         !.embed_failed = (eo # "ok"),
                         !.matched_uni = matched_uni]
        t2 == [t1 EXCEPT !.rpc_args = Some([query_embedding |-> embedding,
                                            match_count |-> MatchCount,
                                            filter |-> Lower(Val(matched_uni))])]
    IN  IF Unresolved(matched_uni) THEN Return(t1, GuidanceMsg, 82)
        ELSE IF rpc_raises THEN RetrieveExcept([t2 EXCEPT !.rpc_raised = TRUE])
        ELSE RetrieveOnData([t2 EXCEPT !.rpc_data = Some(response)],
                            Docs(store, response))

\* insert_data naming the university in its metadata.
InsertDataWithUniversity(tk, embedding) ==
    [url |-> tk.url, title |-> tk.title, content |-> tk.content,
     summary |-> Some(tk.answer), embedding |-> embedding, chunk_number |-> 0,
     metadata |-> IF IsNone(tk.matched_uni) THEN MetaEmpty
                  ELSE MetaNamed(Val(tk.matched_uni))]

\* insert_data, lines 185-192.
InsertData(tk, embedding) ==
    [url |-> tk.url, title |-> tk.title, content |-> tk.content,
     summary |-> Some(tk.answer), embedding |-> embedding, chunk_number |-> 0]

\* Two tasks suspended in tavily_web_search at once with one url that the
\* table does not hold.
MarkRace(tsk, t) ==
    LET others == {o \in Tasks \ {t} :
                      /\ tsk[t].pc = "answer_embedding"
                      /\ tsk[o].pc = "answer_embedding"
                      /\ tsk[o].url = tsk[t].url
                      /\ Existing(store, tsk[t].url) = {}}
    IN  [x \in Tasks |->
            IF others # {} /\ x \in others \cup {t}
            THEN [tsk[x] EXCEPT !.raced = TRUE] ELSE tsk[x]]

(***************************************************************************)
(* Actions.                                                                *)
(***************************************************************************)
Init ==
    /\ store \in IngestedStores
    /\ column_default \in ColumnDefaults
    /\ cached = << >>
    /\ task = [t \in Tasks |-> IdleTask]
    /\ calls = 0
    /\ rq = << >>
    /\ rpieces = 0
    /\ rresolved = None
    /\ rdone = FALSE

\* The agent calls retrieve_university_info(query): the task runs to the
\* await of line 72.
InvokeRetrieve(t) ==
    /\ task[t].pc = "idle"
    /\ calls < MaxCalls
    /\ \E q \in Queries :
         task' = [task EXCEPT ![t] =
                    [IdleTask EXCEPT !.pc = "query_embedding", !.tool = "retrieve",
                                     !.query = q]]
    /\ calls' = calls + 1
    /\ UNCHANGED <<store, column_default, cached, rvars>>

\* The agent calls tavily_web_search(query) as a tool: the task runs to the
\* await of line 183, or returns from the handler.
InvokeWebSearch(t) ==
    /\ task[t].pc = "idle"
    /\ calls < MaxCalls
    /\ \E q \in Queries, resp \in TavilyResponses :
         task' = MarkRace([task EXCEPT ![t] =
                    TavilyRequest([IdleTask EXCEPT !.tool = "web", !.query = q], resp)], t)
    /\ calls' = calls + 1
    /\ UNCHANGED <<store, column_default, cached, rvars>>

\* The embedding of the query arrives and retrieve_university_info runs on.
ResumeRetrieve(t) ==
    /\ task[t].pc = "query_embedding"
    /\ \E eo \in EmbeddingOutcomes, so \in StoreCallOutcomes,
          response \in RpcResults(store) :
         LET tk == RetrieveAfterEmbedding(task[t], eo, so = "raise", response)
         IN  IF tk.pc = "fallback"
             THEN \E resp \in TavilyResponses :
                    task' = MarkRace([task EXCEPT ![t] = TavilyRequest(tk, resp)], t)
             ELSE task' = [task EXCEPT ![t] = tk]
    /\ UNCHANGED <<store, column_default, cached, calls, rvars>>

\* The embedding of the answer arrives and tavily_web_search runs lines
\* 183-199: the existence check and the insert, with no await in between.
ResumeWebSearch(t) ==
    /\ task[t].pc = "answer_embedding"
    /\ \E eo \in EmbeddingOutcomes, so \in StoreCallOutcomes, io \in StoreCallOutcomes :
         LET tk == task[t]
             embedding == GetEmbedding(eo)
             t1 == [tk EXCEPT !.fb_embedding = Some(embedding),
                              !.answer_embed_failed = (eo # "ok"),
                              !.selects = @ + 1]
             row == StoredRow(InsertData(tk, embedding), column_default)
         IN  IF so = "raise"
             THEN /\ task' = [task EXCEPT ![t] = CacheFailure(t1)]
                  /\ UNCHANGED <<store, cached>>
             ELSE IF Existing(store, tk.url) # {}
             THEN /\ task' = [task EXCEPT ![t] = TavilyReturn(t1, tk.answer, 199)]
                  /\ UNCHANGED <<store, cached>>
             ELSE IF io = "raise"
             THEN /\ task' = [task EXCEPT ![t] = CacheFailure(t1)]
                  /\ UNCHANGED <<store, cached>>
             ELSE /\ task' = [task EXCEPT ![t] =
                                TavilyReturn([t1 EXCEPT !.inserts = @ + 1], tk.answer, 199)]
                  /\ store' = Append(store, row)
                  /\ cached' = Append(cached, row)
    /\ UNCHANGED <<column_default, calls, rvars>>

\* The agent takes the tool's result; the task is free for the next call.
Finish(t) ==
    /\ task[t].pc = "done"
    /\ task' = [task EXCEPT ![t] = IdleTask]
    /\ UNCHANGED <<store, column_default, cached, calls, rvars>>

\* One conversation: its tool calls run one at a time.
Main == "t1"

Next ==
    \/ InvokeRetrieve(Main)
    \/ InvokeWebSearch(Main)
    \/ ResumeRetrieve(Main)
    \/ ResumeWebSearch(Main)
    \/ Finish(Main)

Spec == Init /\ [][Next]_vars

\* Two conversations whose agents call tavily_web_search: their tasks
\* interleave at the await of line 183.
NextConcurrent ==
    \/ \E t \in Tasks : InvokeWebSearch(t)
    \/ \E t \in Tasks : ResumeWebSearch(t)
    \/ \E t \in Tasks : Finish(t)

SpecConcurrent == Init /\ [][NextConcurrent]_vars

(***************************************************************************)
(* The resolver on its own: a query assembled from up to MaxPieces pieces  *)
(* is resolved as lines 76-80 resolve it.                                  *)
(***************************************************************************)
QueryPieces ==
    { <<"m","i","t">>, <<"N","U","S","T">>, <<"F","a","s","t">>, <<"a","i","r">>,
      <<" ">>, <<"-">>, <<"_">>, <<"x">>, <<"1">> }

ResolverInit ==
    /\ rq = << >>
    /\ rpieces = 0
    /\ rresolved = None
    /\ rdone = FALSE
    /\ store = << >>
    /\ column_default = MetaNull
    /\ cached = << >>
    /\ task = [t \in Tasks |-> IdleTask]
    /\ calls = 0

\* One more piece of the query text.
ExtendQuery ==
    /\ ~rdone
    /\ rpieces < MaxPieces
    /\ \E p \in QueryPieces : rq' = rq \o p
    /\ rpieces' = rpieces + 1
    /\ UNCHANGED <<rresolved, rdone, mvars>>

\* matched_uni = next(...)
Resolve ==
    /\ ~rdone
    /\ rresolved' = MatchUniversity(rq)
    /\ rdone' = TRUE
    /\ UNCHANGED <<rq, rpieces, mvars>>

ResolverNext == ExtendQuery \/ Resolve

SpecResolver == ResolverInit /\ [][ResolverNext]_vars

(***************************************************************************)
(* C2.  Resolution is first-match over the keyword enumeration: the        *)
(* resolved identifier is the earliest entry of university_keywords that   *)
(* is one of the whole words of the lowercased query (a maximal run of     *)
(* word characters), wherever the entries stand in the text; one entry     *)
(* occurring gives that entry, none occurring (the empty and the blank     *)
(* query included) gives None.                                             *)
(***************************************************************************)
\* The whole words of s: its maximal runs of word characters.
WholeWords(s) ==
    { SubSeq(s, i, j) : <<i, j>> \in
        { w \in (1..Len(s)) \X (1..Len(s)) :
            /\ w[1] <= w[2]
            /\ \A p \in w[1]..w[2] : s[p] \in WordChars
            /\ (w[1] = 1 \/ s[w[1] - 1] \notin WordChars)
            /\ (w[2] = Len(s) \/ s[w[2] + 1] \notin WordChars) } }

OccurringKeywords(q) ==
    {k \in 1..Len(university_keywords) : university_keywords[k] \in WholeWords(Lower(q))}

C2_FirstMatchInEnumerationOrder ==
    rdone =>
        LET occ == OccurringKeywords(rq)
        IN  /\ occ = {} => rresolved = None
            /\ occ # {} =>
                 \E k \in occ :
                    /\ \A j \in occ : k <= j
                    /\ rresolved = Some(university_keywords[k])

\* "mit" stands before "NUST" in the text and nust, earlier in the
\* enumeration, is resolved.
C2_Witness ==
    /\ rdone
    /\ rq = <<"m","i","t">> \o <<" ">> \o <<"N","U","S","T">>
    /\ rresolved = Some(<<"n","u","s","t">>)

(***************************************************************************)
(* Vocabulary of the properties below.                                     *)
(***************************************************************************)
\* The candidate's metadata carries a university name equal, ignoring case,
\* to the identifier.
NamesUniversity(doc, uni) ==
    /\ doc.metadata.k = "map"
    /\ doc.metadata.name.k = "str"
    /\ Lower(doc.metadata.name.s) = uni

\* The candidates the store returned to a task.
Candidates(tk) == Docs(store, Val(tk.rpc_data))

\* A finished call of retrieve_university_info whose query names a known
\* university and whose store query succeeded.
RetrievedFromStore(tk) ==
    /\ tk.pc = "done"
    /\ tk.tool = "retrieve"
    /\ OccurringKeywords(tk.query) # {}
    /\ ~IsNone(tk.rpc_data)

\* The rows the ingestion left: the cache appends and nothing deletes.
Ingested == SubSeq(store, 1, Len(store) - Len(cached))

WithUrl(rows, url) == {i \in 1..Len(rows) : rows[i].url = url}

CachedWithUrl(url) == WithUrl(cached, url)

(***************************************************************************)
(* C1.  For every query that resolves to a university and every successful *)
(* store response in which no candidate has a metadata university name     *)
(* equal (ignoring case) to the resolved identifier (the empty response,   *)
(* candidates of other universities, candidates without usable metadata),  *)
(* retrieve_university_info invokes the web-search fallback exactly once   *)
(* and returns exactly the fallback's return value.                        *)
(***************************************************************************)
C1_NoMatchDelegatesToFallback ==
    \A t \in Tasks :
        LET tk == task[t]
        IN  ( /\ RetrievedFromStore(tk)
              /\ \A i \in 1..Len(Candidates(tk)) :
                    ~NamesUniversity(Candidates(tk)[i], Val(tk.matched_uni)) )
            => /\ tk.fb_calls = 1
               /\ ~IsNone(tk.fb_ret)
               /\ tk.ret = tk.fb_ret
               /\ tk.line \in {98, 108}

(***************************************************************************)
(* C3.  When no university resolves from the query, the call returns the   *)
(* fixed guidance message verbatim, and in that invocation the store is    *)
(* never queried, the web search is never called and the table is left     *)
(* unchanged.                                                              *)
(***************************************************************************)
C3_UnresolvedReturnsGuidanceOnly ==
    [][ \A t \in Tasks :
          ( /\ task[t].pc = "query_embedding"
            /\ task'[t].pc # "query_embedding"
            /\ OccurringKeywords(task[t].query) = {} )
          => /\ task'[t].pc = "done"
             /\ task'[t].ret =
                  Some(<<"Please mention a specific university in your query (e.g., NUST, FAST, LUMS).">>)
             /\ ~task'[t].raised
             /\ IsNone(task'[t].rpc_args) /\ IsNone(task'[t].rpc_data)
             /\ ~task'[t].rpc_raised
             /\ task'[t].web_posts = 0 /\ task'[t].fb_calls = 0
             /\ task'[t].selects = 0 /\ task'[t].inserts = 0
             /\ store' = store /\ cached' = cached ]_vars

C3_Witness ==
    \E t \in Tasks :
        /\ task[t].pc = "done"
        /\ task[t].tool = "retrieve"
        /\ task[t].query = <<"s","u","n","n","y">>
        /\ task[t].line = 82
        /\ Len(store) > 0

(***************************************************************************)
(* C4.  Cache population is idempotent per source URL when invocations do  *)
(* not overlap: the table never holds more than one cache-written record   *)
(* for a URL, and an invocation whose URL is already in the table inserts  *)
(* nothing, updates nothing and raises nothing.                            *)
(***************************************************************************)
C4_CacheIdempotentPerUrl ==
    [][ \A t \in Tasks :
          ( /\ task[t].pc = "answer_embedding"
            /\ task'[t].pc = "done" )
          => /\ \A i \in 1..Len(cached') : Cardinality(WithUrl(cached', cached'[i].url)) = 1
             /\ (\E i \in 1..Len(store) : store[i].url = task[t].url)
                  => /\ store' = store
                     /\ cached' = cached
                     /\ task'[t].inserts = 0
                     /\ ~task'[t].raised
                     /\ (task'[t].cache_raised \/ task'[t].ret = Some(task[t].answer)) ]_vars

\* The second of two invocations finds the record the first one cached and
\* returns its answer without inserting.
C4_Witness ==
    \E t \in Tasks :
        /\ task[t].pc = "done"
        /\ calls = 2
        /\ task[t].selects = 1
        /\ task[t].inserts = 0
        /\ ~task[t].cache_raised
        /\ task[t].ret = Some(task[t].answer)
        /\ Cardinality(CachedWithUrl(task[t].url)) = 1

(***************************************************************************)
(* C5.  As claimed: two concurrent fallback invocations that obtain the    *)
(* same source URL, both while the table does not hold it, both insert, so *)
(* that the table ends with two cached records for the URL.                *)
(***************************************************************************)
\* Two tasks that were suspended in tavily_web_search at once with one URL the
\* table did not hold, both finished without a failure of the store.
RacedAndReturned(t1, t2) ==
    /\ t1 # t2
    /\ task[t1].pc = "done" /\ task[t2].pc = "done"
    /\ task[t1].raced /\ task[t2].raced
    /\ task[t1].url = task[t2].url
    /\ task[t1].line = 199 /\ task[t2].line = 199

C5_RaceInsertsTwice ==
    \A t1, t2 \in Tasks :
        RacedAndReturned(t1, t2) => Cardinality(CachedWithUrl(task[t1].url)) = 2

(***************************************************************************)
(* C5, amended.  Tasks interleave only at their awaits and no await stands *)
(* between the existence check and the insert, so concurrent fallback      *)
(* invocations never leave two cached records for one URL: of two that     *)
(* overlapped on one URL exactly one inserted.                             *)
(***************************************************************************)
C5_NoDuplicateUnderCooperativeScheduling ==
    /\ \A i \in 1..Len(cached) : Cardinality(CachedWithUrl(cached[i].url)) = 1
    /\ \A t1, t2 \in Tasks :
          RacedAndReturned(t1, t2)
          => /\ Cardinality(CachedWithUrl(task[t1].url)) = 1
             /\ task[t1].inserts + task[t2].inserts = 1

C5_Witness ==
    \E t1, t2 \in Tasks :
        /\ RacedAndReturned(t1, t2)
        /\ task[t1].inserts = 1
        /\ task[t2].inserts = 0

(***************************************************************************)
(* C6.  No failure of the store query or of the web search escapes as an   *)
(* exception: a failing store query yields the store-error string and the  *)
(* web search is not attempted; a failing web search yields a second fixed *)
(* string, different from the first, also when retrieve_university_info    *)
(* reached the fallback.                                                   *)
(***************************************************************************)
C6_FailuresBecomeStrings ==
    \A t \in Tasks :
        LET tk == task[t]
        IN  /\ ~tk.raised
            /\ (tk.pc = "done" /\ tk.rpc_raised)
                 => /\ tk.ret = Some(<<"There was an error fetching data. Please try again.">>)
                    /\ tk.web_posts = 0
                    /\ tk.fb_calls = 0
            /\ (tk.pc = "done" /\ tk.web_failed)
                 => /\ tk.ret = Some(<<"There was an error retrieving the latest web result. Please try again later.">>)
                    /\ tk.ret # Some(StoreErrorMsg)
                    /\ tk.selects = 0

\* The web search fails in a fallback that retrieve_university_info started.
C6_Witness ==
    \E t \in Tasks :
        /\ task[t].pc = "done"
        /\ task[t].tool = "retrieve"
        /\ task[t].web_failed
        /\ task[t].line = 108

(***************************************************************************)
(* C7.  get_embedding always returns: on a provider failure it returns the *)
(* 1536-element all-zero vector, nothing is raised, the store is queried   *)
(* with that vector and the fallback caches its record with that vector,   *)
(* as for a successful embedding.                                          *)
(***************************************************************************)
C7_EmbeddingFailureDegradesToZeroVector ==
    \A t \in Tasks :
        LET tk == task[t]
            zeros == [len |-> 1536, zero |-> TRUE]
        IN  /\ tk.embed_failed
                 => /\ ~tk.raised
                    /\ tk.embedding = Some(zeros)
                    /\ OccurringKeywords(tk.query) # {}
                         => /\ ~IsNone(tk.rpc_args)
                            /\ Val(tk.rpc_args).query_embedding = zeros
            /\ tk.answer_embed_failed
                 => /\ ~tk.raised
                    /\ tk.fb_embedding = Some(zeros)
                    /\ tk.selects = 1
                    /\ tk.inserts = 1
                         => /\ tk.ret = Some(tk.answer)
                            /\ \E i \in CachedWithUrl(tk.url) : cached[i].embedding = zeros

\* Both embeddings of one call fail; the store was queried and the record
\* cached all the same.
C7_Witness ==
    \E t \in Tasks :
        /\ task[t].pc = "done"
        /\ task[t].tool = "retrieve"
        /\ task[t].embed_failed
        /\ task[t].answer_embed_failed
        /\ ~IsNone(task[t].rpc_data)
        /\ task[t].inserts = 1

(***************************************************************************)
(* C8.  As claimed: on the hit path with N >= 1 surviving candidates the   *)
(* returned text is N sections in the store's returned order joined by the *)
(* separator, each a title heading followed by the candidate's summary if  *)
(* present, else by the first 300 characters of its content followed by an *)
(* ellipsis marker.                                                        *)
(***************************************************************************)
\* The positions of the separator in a text.
SeparatorPositions(txt) == {i \in 1..Len(txt) : txt[i] = "\n\n---\n\n"}

\* The k-th of the sections the separators cut a text into.
SectionOf(txt, k) ==
    LET seps == SeparatorPositions(txt)
        nth(n) == CHOOSE p \in seps : Cardinality({q \in seps : q < p}) = n - 1
        first == IF k = 1 THEN 1 ELSE nth(k - 1) + 1
        last == IF k = Cardinality(seps) + 1 THEN Len(txt) ELSE nth(k) - 1
    IN  SubSeq(txt, first, last)

\* The candidates that survive the re-filter, in the returned order.
Survivors(tk) ==
    SelectSeq(Candidates(tk), LAMBDA doc : NamesUniversity(doc, Val(tk.matched_uni)))

HasSummary(doc) == ~IsNone(doc.summary) /\ Val(doc.summary) # << >>

First300(content) ==
    IF Len(content) <= 300 THEN content ELSE [i \in 1..300 |-> content[i]]

\* The text is the N sections section(doc) of the survivors, in order.
HitTextIs(tk, section(_)) ==
    LET txt == Val(tk.ret)
        docs == Survivors(tk)
    IN  /\ Len(docs) >= 1
        /\ Cardinality(SeparatorPositions(txt)) = Len(docs) - 1
        /\ \A k \in 1..Len(docs) : SectionOf(txt, k) = section(docs[k])

SectionAsClaimed(doc) ==
    <<"# ">> \o doc.title \o <<"\n\n">> \o
    (IF HasSummary(doc) THEN Val(doc.summary) ELSE First300(doc.content) \o <<"...">>)

C8_SectionsEllipsisAfterContentOnly ==
    \A t \in Tasks :
        (task[t].pc = "done" /\ task[t].line = 116) => HitTextIs(task[t], SectionAsClaimed)

(***************************************************************************)
(* C8, amended.  On the hit path with N >= 1 surviving candidates the      *)
(* returned text is N sections in the store's returned order joined by the *)
(* separator, each a title heading followed by the candidate's summary if  *)
(* it is not empty, else by the first 300 characters of its content, and   *)
(* in both cases followed by the ellipsis marker.                          *)
(***************************************************************************)
SectionWithEllipsis(doc) ==
    <<"# ">> \o doc.title \o <<"\n\n">> \o
    (IF HasSummary(doc) THEN Val(doc.summary) ELSE First300(doc.content)) \o <<"...">>

C8_SectionsAlwaysEndWithEllipsis ==
    \A t \in Tasks :
        (task[t].pc = "done" /\ task[t].line = 116) => HitTextIs(task[t], SectionWithEllipsis)

\* Two survivors returned against the table's order, the first without a
\* summary and with more than 300 characters of content, the second with a
\* summary.
C8_Witness ==
    \E t \in Tasks :
        /\ task[t].pc = "done"
        /\ task[t].line = 116
        /\ Val(task[t].rpc_data) = <<2, 1>>
        /\ Len(Survivors(task[t])) = 2
        /\ ~HasSummary(Survivors(task[t])[1])
        /\ Len(Survivors(task[t])[1].content) > 300
        /\ HasSummary(Survivors(task[t])[2])

(***************************************************************************)
(* C9.  As claimed: when the web search has succeeded and the existence    *)
(* check or the insert of the cache raises, the exception propagates out   *)
(* of the fallback to its caller and the fallback returns no string.       *)
(***************************************************************************)
C9_CacheFailurePropagates ==
    \A t \in Tasks :
        (task[t].pc = "done" /\ task[t].cache_raised)
        => /\ IsNone(task[t].fb_ret)
           /\ task[t].tool = "web" => task[t].raised

(***************************************************************************)
(* C9, amended.  When the web search has succeeded and the existence check *)
(* or the insert of the cache raises, the handler of the fallback catches  *)
(* the exception: the fallback returns the web-search error string,        *)
(* nothing propagates to its caller and nothing is inserted.               *)
(***************************************************************************)
C9_CacheFailureBecomesWebError ==
    \A t \in Tasks :
        (task[t].pc = "done" /\ task[t].cache_raised)
        => /\ ~task[t].raised
           /\ task[t].fb_ret =
                Some(<<"There was an error retrieving the latest web result. Please try again later.">>)
           /\ task[t].ret = task[t].fb_ret
           /\ task[t].inserts = 0
           /\ task[t].tool = "retrieve" => task[t].line \in {98, 108}

\* A cache failure after a successful web search, in a fallback called as a
\* tool.
C9_Witness ==
    \E t \in Tasks :
        /\ task[t].pc = "done"
        /\ task[t].tool = "web"
        /\ task[t].cache_raised
        /\ task[t].web_posts = 1
        /\ ~task[t].web_failed

=============================================================================
